---- MODULE Spec2Model ----
(***************************************************************************)
(* The persistence schema of the review aggregator (reviews/models.py):    *)
(* Category, Genre, Title, Review and Comment rows, the validators and     *)
(* constraints declared on their fields, the on_delete rules of their      *)
(* foreign keys, and Review.get_mean_score.                                *)
(*                                                                         *)
(* A table is a function from the primary keys of its stored rows to the   *)
(* rows.  An operation is one save or delete of one row through the model: *)
(* the field validators run first (ValidationError), then the constraints  *)
(* of the table (IntegrityError); a rejected operation stores nothing.     *)
(***************************************************************************)
EXTENDS Integers, Sequences, FiniteSets, TLC

VARIABLES users, categories, genres, titles, reviews, comments,
          loadYear, today, result

vars == <<users, categories, genres, titles, reviews, comments,
          loadYear, today, result>>

tables == <<users, categories, genres, titles, reviews, comments>>

(***************************************************************************)
(* Bounds of the model.                                                    *)
(***************************************************************************)
MaxUsers == 2
MaxCategories == 2
MaxGenres == 2
MaxTitles == 2
MaxReviews == 2
MaxComments == 2
\* Rows of the two outer tables when all six tables are checked together.
JointGenres == 1
JointComments == 1
\* The year the module is imported in, and the last year of the run.
StartYear == 2
MaxYear == 4

UserIds == 1..MaxUsers
CategoryIds == 1..MaxCategories
GenreIds == 1..MaxGenres
TitleIds == 1..MaxTitles
ReviewIds == 1..MaxReviews
CommentIds == 1..MaxComments

\* null=True: the value of an empty foreign key.
Null == 0

(***************************************************************************)
(* Field validators.                                                       *)
(***************************************************************************)
\* validators=[MinValueValidator(1), MaxValueValidator(10)] of Review.score
MinScore == 1
MaxScore == 10

\* max_length=50 of the two slug fields
SlugMaxLength == 50

\* validate_slug: one or more of letters, digits, hyphens and underscores
SlugChars == {"a", "b", "7", "-", "_"}

validate_slug(s) ==
    /\ Len(s) > 0
    /\ \A i \in 1..Len(s) : s[i] \in SlugChars

SlugFieldValid(s) == validate_slug(s) /\ Len(s) <= SlugMaxLength

MinValueValidator(limit, v) == v >= limit

MaxValueValidator(limit, v) == v <= limit

\* Review.score with its MaxValueValidator left out.
ScoreValidMinOnly(s) == MinValueValidator(MinScore, s)

ScoreValid(s) == MinValueValidator(MinScore, s) /\ MaxValueValidator(MaxScore, s)

\* Title.year: a PositiveIntegerField whose MaxValueValidator was built, when
\* the class body ran, with the value date.today().year had then.
YearValid(y) == y >= 0 /\ MaxValueValidator(loadYear, y)

(***************************************************************************)
(* Rows and helpers.                                                       *)
(***************************************************************************)
\* What the last operation gave its caller: a save stores the row ("ok"), a
\* delete reports the model it deleted from, a rejected operation raises an
\* error that names the field or the constraint, get_mean_score returns a value.
Saved == [status |-> "ok", detail |-> "", value |-> 0]

Deleted(model) == [status |-> "deleted", detail |-> model, value |-> 0]

Raised(e, detail) == [status |-> e, detail |-> detail, value |-> 0]

Returned(v) == [status |-> "returned", detail |-> "", value |-> v]

\* The table f without the rows whose keys are in S.
Without(f, S) == [k \in DOMAIN f \ S |-> f[k]]

\* The table f with row r stored under key k (inserted or replaced).
With(f, k, r) == [x \in DOMAIN f \cup {k} |-> IF x = k THEN r ELSE f[x]]

ReviewsOfTitles(T) == {r \in DOMAIN reviews : reviews[r].title \in T}

ReviewsOfAuthors(U) == {r \in DOMAIN reviews : reviews[r].author \in U}

CommentsOfReviews(R) == {c \in DOMAIN comments : comments[c].review \in R}

CommentsOfAuthors(U) == {c \in DOMAIN comments : comments[c].author \in U}

(***************************************************************************)
(* Constraints.                                                            *)
(***************************************************************************)
\* unique=True looked at when a row is inserted, not when one is changed.
SlugUniqueOnInsert(table, id, slug) ==
    id \in DOMAIN table \/ \A k \in DOMAIN table : table[k].slug # slug

\* unique=True of Category.slug and of Genre.slug: no other row of the same
\* table holds the slug.
SlugUnique(table, id, slug) ==
    \A k \in DOMAIN table : k # id => table[k].slug # slug

\* Review.Meta with no constraint.
no_unique_constraint(id, author, title) == TRUE

\* UniqueConstraint(fields=["author", "title"]) of Review.
unique_author_title_pair(id, author, title) ==
    \A k \in DOMAIN reviews :
        k # id => ~(reviews[k].author = author /\ reviews[k].title = title)

\* CheckConstraint(check=~Q(author=F("review__author"))) of Comment: a
\* constraint of the comment table, evaluated on the row being written.
self_commenting_check(author, review) ==
    reviews[review].author # author

(***************************************************************************)
(* Initial state: the module has just been imported (the class bodies have *)
(* run) and the tables are empty.                                          *)
(***************************************************************************)
Empty == [k \in {} |-> 0]

Init ==
    /\ users = {}
    /\ categories = Empty
    /\ genres = Empty
    /\ titles = Empty
    /\ reviews = Empty
    /\ comments = Empty
    /\ today = StartYear
    /\ loadYear = today
    /\ result = Saved

Reject(e, detail) ==
    /\ result' = Raised(e, detail)
    /\ UNCHANGED <<tables, loadYear, today>>

(***************************************************************************)
(* User (get_user_model()): rows of the user table, known here by key.     *)
(***************************************************************************)
UserCreate(u) ==
    /\ u \notin users
    /\ users' = users \cup {u}
    /\ result' = Saved
    /\ UNCHANGED <<categories, genres, titles, reviews, comments, loadYear, today>>

\* Comment.review with on_delete=DO_NOTHING: the comments other users wrote on
\* the deleted user's reviews stay.
UserDeleteAuthoredOnly(u) ==
    /\ u \in users
    /\ users' = users \ {u}
    /\ reviews' = Without(reviews, ReviewsOfAuthors({u}))
    /\ comments' = Without(comments, CommentsOfAuthors({u}))
    /\ result' = Deleted("User")
    /\ UNCHANGED <<categories, genres, titles, loadYear, today>>

\* on_delete=CASCADE of Review.author, Comment.author and Comment.review
UserDelete(u) ==
    /\ u \in users
    /\ users' = users \ {u}
    /\ reviews' = Without(reviews, ReviewsOfAuthors({u}))
    /\ comments' = Without(comments, CommentsOfAuthors({u})
                                       \cup CommentsOfReviews(ReviewsOfAuthors({u})))
    /\ result' = Deleted("User")
    /\ UNCHANGED <<categories, genres, titles, loadYear, today>>

(***************************************************************************)
(* Category                                                                *)
(***************************************************************************)
CategoryWrite(id, name, slug) ==
    IF ~SlugFieldValid(slug) THEN Reject("ValidationError", "slug")
    ELSE IF ~SlugUnique(categories, id, slug)
         THEN Reject("IntegrityError", "category.slug")
    ELSE /\ categories' = With(categories, id, [name |-> name, slug |-> slug])
         /\ result' = Saved
         /\ UNCHANGED <<users, genres, titles, reviews, comments, loadYear, today>>

CategoryCreate(id, name, slug) ==
    /\ id \notin DOMAIN categories
    /\ CategoryWrite(id, name, slug)

CategoryUpdate(id, name, slug) ==
    /\ id \in DOMAIN categories
    /\ CategoryWrite(id, name, slug)

\* Title.category with on_delete=CASCADE: the titles of the category go with
\* it, and their reviews and comments with them.
CategoryDeleteCascade(id) ==
    LET gone == {t \in DOMAIN titles : titles[t].category = id}
    IN  /\ id \in DOMAIN categories
        /\ categories' = Without(categories, {id})
        /\ titles' = Without(titles, gone)
        /\ reviews' = Without(reviews, ReviewsOfTitles(gone))
        /\ comments' = Without(comments, CommentsOfReviews(ReviewsOfTitles(gone)))
        /\ result' = Deleted("Category")
        /\ UNCHANGED <<users, genres, loadYear, today>>

\* on_delete=SET_NULL of Title.category
CategoryDelete(id) ==
    /\ id \in DOMAIN categories
    /\ categories' = Without(categories, {id})
    /\ titles' = [t \in DOMAIN titles |->
                    IF titles[t].category = id
                    THEN [titles[t] EXCEPT !.category = Null]
                    ELSE titles[t]]
    /\ result' = Deleted("Category")
    /\ UNCHANGED <<users, genres, reviews, comments, loadYear, today>>

(***************************************************************************)
(* Genre                                                                   *)
(***************************************************************************)
GenreWrite(id, name, slug) ==
    IF ~SlugFieldValid(slug) THEN Reject("ValidationError", "slug")
    ELSE IF ~SlugUnique(genres, id, slug)
         THEN Reject("IntegrityError", "genre.slug")
    ELSE /\ genres' = With(genres, id, [name |-> name, slug |-> slug])
         /\ result' = Saved
         /\ UNCHANGED <<users, categories, titles, reviews, comments, loadYear, today>>

GenreCreate(id, name, slug) ==
    /\ id \notin DOMAIN genres
    /\ GenreWrite(id, name, slug)

GenreUpdate(id, name, slug) ==
    /\ id \in DOMAIN genres
    /\ GenreWrite(id, name, slug)

\* The rows of the many-to-many table of Title.genre go with the genre.
GenreDelete(id) ==
    /\ id \in DOMAIN genres
    /\ genres' = Without(genres, {id})
    /\ titles' = [t \in DOMAIN titles |->
                    [titles[t] EXCEPT !.genre = titles[t].genre \ {id}]]
    /\ result' = Deleted("Genre")
    /\ UNCHANGED <<users, categories, reviews, comments, loadYear, today>>

(***************************************************************************)
(* Title                                                                   *)
(***************************************************************************)
TitleWrite(id, name, year, description, genre, category) ==
    IF ~YearValid(year) THEN Reject("ValidationError", "year")
    ELSE IF ~(category = Null \/ category \in DOMAIN categories)
         THEN Reject("IntegrityError", "title.category")
    ELSE IF ~(genre \subseteq DOMAIN genres)
         THEN Reject("IntegrityError", "title.genre")
    ELSE /\ titles' = With(titles, id, [name |-> name, year |-> year,
                                        description |-> description,
                                        genre |-> genre, category |-> category])
         /\ result' = Saved
         /\ UNCHANGED <<users, categories, genres, reviews, comments, loadYear, today>>

TitleCreate(id, name, year, description, genre, category) ==
    /\ id \notin DOMAIN titles
    /\ TitleWrite(id, name, year, description, genre, category)

TitleUpdate(id, name, year, description, genre, category) ==
    /\ id \in DOMAIN titles
    /\ TitleWrite(id, name, year, description, genre, category)

\* on_delete=CASCADE of Review.title, and of Comment.review for their comments
TitleDelete(id) ==
    /\ id \in DOMAIN titles
    /\ titles' = Without(titles, {id})
    /\ reviews' = Without(reviews, ReviewsOfTitles({id}))
    /\ comments' = Without(comments, CommentsOfReviews(ReviewsOfTitles({id})))
    /\ result' = Deleted("Title")
    /\ UNCHANGED <<users, categories, genres, loadYear, today>>

(***************************************************************************)
(* Review                                                                  *)
(***************************************************************************)
ReviewWrite(id, title, author, text, score, pub_date) ==
    IF ~ScoreValid(score) THEN Reject("ValidationError", "score")
    ELSE IF title \notin DOMAIN titles THEN Reject("IntegrityError", "review.title")
    ELSE IF author \notin users THEN Reject("IntegrityError", "review.author")
    ELSE IF ~unique_author_title_pair(id, author, title)
         THEN Reject("IntegrityError", "unique_author_title_pair")
    ELSE /\ reviews' = With(reviews, id, [title |-> title, author |-> author,
                                          text |-> text, score |-> score,
                                          pub_date |-> pub_date])
         /\ result' = Saved
         /\ UNCHANGED <<users, categories, genres, titles, comments, loadYear, today>>

\* auto_now_add=True: pub_date is the time of the insert
ReviewCreate(id, title, author, text, score) ==
    /\ id \notin DOMAIN reviews
    /\ ReviewWrite(id, title, author, text, score, today)

ReviewUpdate(id, title, author, text, score) ==
    /\ id \in DOMAIN reviews
    /\ ReviewWrite(id, title, author, text, score, reviews[id].pub_date)

\* Comment.review with on_delete=DO_NOTHING.
ReviewDeleteDoNothing(id) ==
    /\ id \in DOMAIN reviews
    /\ reviews' = Without(reviews, {id})
    /\ result' = Deleted("Review")
    /\ UNCHANGED <<users, categories, genres, titles, comments, loadYear, today>>

\* on_delete=CASCADE of Comment.review
ReviewDelete(id) ==
    /\ id \in DOMAIN reviews
    /\ reviews' = Without(reviews, {id})
    /\ comments' = Without(comments, CommentsOfReviews({id}))
    /\ result' = Deleted("Review")
    /\ UNCHANGED <<users, categories, genres, titles, loadYear, today>>

(***************************************************************************)
(* Comment                                                                 *)
(***************************************************************************)
CommentWrite(id, author, review, text, pub_date) ==
    IF author \notin users THEN Reject("IntegrityError", "comment.author")
    ELSE IF review \notin DOMAIN reviews
         THEN Reject("IntegrityError", "comment.review")
    ELSE IF ~self_commenting_check(author, review)
         THEN Reject("IntegrityError", "self_commenting_check")
    ELSE /\ comments' = With(comments, id, [author |-> author, review |-> review,
                                            text |-> text, pub_date |-> pub_date])
         /\ result' = Saved
         /\ UNCHANGED <<users, categories, genres, titles, reviews, loadYear, today>>

CommentCreate(id, author, review, text) ==
    /\ id \notin DOMAIN comments
    /\ CommentWrite(id, author, review, text, today)

CommentUpdate(id, author, review, text) ==
    /\ id \in DOMAIN comments
    /\ CommentWrite(id, author, review, text, comments[id].pub_date)

CommentDelete(id) ==
    /\ id \in DOMAIN comments
    /\ comments' = Without(comments, {id})
    /\ result' = Deleted("Comment")
    /\ UNCHANGED <<users, categories, genres, titles, reviews, loadYear, today>>

(***************************************************************************)
(* The calendar: the year of date.today() moves on while the process runs. *)
(***************************************************************************)
NewYear ==
    /\ today < MaxYear
    /\ today' = today + 1
    /\ result' = Saved
    /\ UNCHANGED <<tables, loadYear>>

(***************************************************************************)
(* Review.get_mean_score                                                   *)
(***************************************************************************)
\* Python values, by type.
PyNumber(num, den) == [type |-> "float", num |-> num, den |-> den]

PyNone == [type |-> "NoneType"]

PyDict(key, item) == [type |-> "dict", key |-> key, item |-> item]

RECURSIVE SumScores(_)
SumScores(R) ==
    IF R = {} THEN 0
    ELSE LET r == CHOOSE x \in R : TRUE
         IN  reviews[r].score + SumScores(R \ {r})

\* models.Avg("score") over a queryset: NULL over no rows.
Avg(R) ==
    IF R = {} THEN PyNone ELSE PyNumber(SumScores(R), Cardinality(R))

\* Review.objects.filter(title=title)
FilterByTitle(title) == ReviewsOfTitles({title})

\* QuerySet.aggregate returns a dict, keyed by the aggregate's default alias.
aggregate(R) == PyDict("score__avg", Avg(R))

\* round(x) with one argument: the nearest integer, ties to the even one,
\* for a number; TypeError for a value with no __round__.
round(x) ==
    IF x.type = "float"
    THEN LET q == x.num \div x.den
             r == x.num % x.den
         IN  [raised |-> "",
              value |-> IF 2 * r < x.den THEN q
                        ELSE IF 2 * r > x.den THEN q + 1
                        ELSE IF q % 2 = 0 THEN q ELSE q + 1]
    ELSE [raised |-> "TypeError", value |-> 0]

\* get_mean_score with the lookup of the title moved into the try block.
get_mean_score_lookup_in_try(self, title_id) ==
    /\ self \in DOMAIN reviews \cup {Null}
    /\ result' = Returned(0)
    /\ UNCHANGED <<tables, loadYear, today>>

\* self is the instance the method is called on (Null: one not stored).
get_mean_score(self, title_id) ==
    /\ self \in DOMAIN reviews \cup {Null}
    /\ UNCHANGED <<tables, loadYear, today>>
    /\ IF title_id \notin DOMAIN titles
       THEN result' = Raised("Http404", "Title")
       ELSE LET rounded == round(aggregate(FilterByTitle(title_id)))
            IN  IF rounded.raised = ""
                THEN result' = Returned(rounded.value)
                ELSE result' = Returned(0)

(***************************************************************************)
(* Inputs.  A foreign key given to an operation may name a row that is not *)
(* stored.                                                                 *)
(***************************************************************************)
Names == {"n", "m"}

Texts == {"x"}

ValidSlugs == {<<"a">>, <<"b", "-", "7">>}

Slugs == ValidSlugs \cup {<<"a", " ">>, <<>>}

Scores == {MinScore - 1, MinScore, MaxScore, MaxScore + 1}

Years == -1..(MaxYear + 1)

AnyUser == UserIds

AnyCategory == CategoryIds \cup {Null}

AnyTitle == TitleIds

AnyReview == ReviewIds

(***************************************************************************)
(* Spec: every operation on the six tables, with well-formed field values. *)
(***************************************************************************)
Next ==
    \/ \E u \in UserIds : UserCreate(u)
    \/ \E u \in UserIds : UserDelete(u)
    \/ \E id \in CategoryIds, s \in ValidSlugs : CategoryCreate(id, "n", s)
    \/ \E id \in CategoryIds, s \in ValidSlugs : CategoryUpdate(id, "n", s)
    \/ \E id \in CategoryIds : CategoryDelete(id)
    \/ \E id \in 1..JointGenres, s \in ValidSlugs : GenreCreate(id, "n", s)
    \/ \E id \in 1..JointGenres, s \in ValidSlugs : GenreUpdate(id, "n", s)
    \/ \E id \in 1..JointGenres : GenreDelete(id)
    \/ \E id \in TitleIds, g \in SUBSET (1..JointGenres), c \in AnyCategory :
            TitleCreate(id, "n", StartYear, "x", g, c)
    \/ \E id \in TitleIds, g \in SUBSET (1..JointGenres), c \in AnyCategory :
            TitleUpdate(id, "n", StartYear, "x", g, c)
    \/ \E id \in TitleIds : TitleDelete(id)
    \/ \E id \in ReviewIds, t \in AnyTitle, a \in AnyUser :
            ReviewCreate(id, t, a, "x", MinScore)
    \/ \E id \in ReviewIds, t \in AnyTitle, a \in AnyUser :
            ReviewUpdate(id, t, a, "x", MinScore)
    \/ \E id \in ReviewIds : ReviewDelete(id)
    \/ \E id \in 1..JointComments, a \in AnyUser, r \in AnyReview :
            CommentCreate(id, a, r, "x")
    \/ \E id \in 1..JointComments, a \in AnyUser, r \in AnyReview :
            CommentUpdate(id, a, r, "x")
    \/ \E id \in 1..JointComments : CommentDelete(id)

Spec == Init /\ [][Next]_vars

(***************************************************************************)
(* SpecSlugs: the two lookup tables, with every slug and name.             *)
(***************************************************************************)
NextSlugs ==
    \/ \E id \in CategoryIds, n \in Names, s \in Slugs : CategoryCreate(id, n, s)
    \/ \E id \in CategoryIds, n \in Names, s \in Slugs : CategoryUpdate(id, n, s)
    \/ \E id \in CategoryIds : CategoryDelete(id)
    \/ \E id \in GenreIds, n \in Names, s \in Slugs : GenreCreate(id, n, s)
    \/ \E id \in GenreIds, n \in Names, s \in Slugs : GenreUpdate(id, n, s)
    \/ \E id \in GenreIds : GenreDelete(id)

SpecSlugs == Init /\ [][NextSlugs]_vars

(***************************************************************************)
(* SpecReviews: users, titles, reviews with every score, get_mean_score.   *)
(***************************************************************************)
NextReviews ==
    \/ \E u \in UserIds : UserCreate(u)
    \/ \E u \in UserIds : UserDelete(u)
    \/ \E id \in TitleIds : TitleCreate(id, "n", StartYear, "x", {}, Null)
    \/ \E id \in TitleIds : TitleDelete(id)
    \/ \E id \in ReviewIds, t \in AnyTitle, a \in AnyUser, s \in Scores :
            ReviewCreate(id, t, a, "x", s)
    \/ \E id \in ReviewIds, t \in AnyTitle, a \in AnyUser, s \in Scores :
            ReviewUpdate(id, t, a, "x", s)
    \/ \E id \in ReviewIds : ReviewDelete(id)
    \/ \E self \in ReviewIds \cup {Null}, t \in AnyTitle : get_mean_score(self, t)

SpecReviews == Init /\ [][NextReviews]_vars

(***************************************************************************)
(* SpecComments: users, a title, reviews and the comments on them.         *)
(***************************************************************************)
NextComments ==
    \/ \E u \in UserIds : UserCreate(u)
    \/ \E u \in UserIds : UserDelete(u)
    \/ \E id \in TitleIds : TitleCreate(id, "n", StartYear, "x", {}, Null)
    \/ \E id \in TitleIds : TitleDelete(id)
    \/ \E id \in ReviewIds, t \in AnyTitle, a \in AnyUser :
            ReviewCreate(id, t, a, "x", MinScore)
    \/ \E id \in ReviewIds, t \in AnyTitle, a \in AnyUser :
            ReviewUpdate(id, t, a, "x", MinScore)
    \/ \E id \in ReviewIds : ReviewDelete(id)
    \/ \E id \in CommentIds, a \in AnyUser, r \in AnyReview :
            CommentCreate(id, a, r, "x")
    \/ \E id \in CommentIds, a \in AnyUser, r \in AnyReview :
            CommentUpdate(id, a, r, "x")
    \/ \E id \in CommentIds : CommentDelete(id)

SpecComments == Init /\ [][NextComments]_vars

(***************************************************************************)
(* SpecYear: titles with every year, while the calendar moves on.          *)
(***************************************************************************)
NextYear ==
    \/ \E id \in TitleIds, n \in Names, y \in Years :
            TitleCreate(id, n, y, "x", {}, Null)
    \/ \E id \in TitleIds, n \in Names, y \in Years :
            TitleUpdate(id, n, y, "x", {}, Null)
    \/ \E id \in TitleIds : TitleDelete(id)
    \/ NewYear

SpecYear == Init /\ [][NextYear]_vars

(***************************************************************************)
(* Properties.                                                             *)
(***************************************************************************)

\* ---- C1 ---------------------------------------------------------------
NoDuplicateReview ==
    \A r1, r2 \in DOMAIN reviews :
        r1 # r2 => ~(/\ reviews[r1].author = reviews[r2].author
                     /\ reviews[r1].title = reviews[r2].title)

\* A save of review id as (author a, title t) while another stored review
\* holds that pair is rejected and stores nothing.
DuplicateReviewRejected ==
    \A id \in ReviewIds, t \in AnyTitle, a \in AnyUser, s \in Scores :
        (/\ \E k \in DOMAIN reviews \ {id} :
                reviews[k].author = a /\ reviews[k].title = t
         /\ ReviewCreate(id, t, a, "x", s) \/ ReviewUpdate(id, t, a, "x", s))
        => /\ result'.status \in {"IntegrityError", "ValidationError"}
           /\ reviews' = reviews

\* C1: one review per author per title.  In every reachable state no two
\* stored reviews have the same (author, title) pair, and a create or update
\* that would store a second review with a pair is rejected and leaves the
\* stored reviews as they were.
C1_OneReviewPerAuthorTitle ==
    []NoDuplicateReview /\ [][DuplicateReviewRejected]_vars

\* Two reviews are stored and the last operation was rejected by the
\* constraint.
C1_Witness ==
    /\ result = Raised("IntegrityError", "unique_author_title_pair")
    /\ Cardinality(DOMAIN reviews) = 2

\* ---- C2 ---------------------------------------------------------------
\* C2: no stored comment has the author of the review it is on, after any
\* sequence of comment and review creates and updates, changes of a
\* commented review's author included.
C2_NoSelfComment ==
    \A c \in DOMAIN comments :
        comments[c].review \in DOMAIN reviews
            => comments[c].author # reviews[comments[c].review].author

\* ---- C3 ---------------------------------------------------------------
ScoresInRange ==
    \A r \in DOMAIN reviews :
        reviews[r].score \in Int /\ 1 <= reviews[r].score /\ reviews[r].score <= 10

OutOfRangeScoreRejected ==
    \A id \in ReviewIds, t \in AnyTitle, a \in AnyUser, s \in Scores :
        (/\ s <= 0 \/ s >= 11
         /\ ReviewCreate(id, t, a, "x", s) \/ ReviewUpdate(id, t, a, "x", s))
        => /\ result'.status = "ValidationError"
           /\ reviews' = reviews

C4_YearNotAfterToday ==
    [][\A id \in TitleIds, n \in Names, y \in Years :
          (/\ y >= 0
           /\ TitleCreate(id, n, y, "x", {}, Null)
                \/ TitleUpdate(id, n, y, "x", {}, Null))
          => (result'.status = "ok" <=> y <= today)]_vars

\* ---- C5 ---------------------------------------------------------------
\* m is the mean sum / n rounded to an integer (either way at a tie).
IsRoundedMean(m, sum, n) ==
    /\ 2 * (sum - m * n) <= n
    /\ 2 * (m * n - sum) <= n

\* C5: for a stored title with at least one review, get_mean_score returns
\* the mean of the scores of the reviews of that title, rounded to an
\* integer, whichever instance it is called on.
C5_MeanScore ==
    [][\A self \in ReviewIds \cup {Null}, t \in AnyTitle :
          (/\ t \in DOMAIN titles
           /\ FilterByTitle(t) # {}
           /\ get_mean_score(self, t))
          => /\ result'.status = "returned"
             /\ IsRoundedMean(result'.value, SumScores(FilterByTitle(t)),
                              Cardinality(FilterByTitle(t)))]_vars

\* ---- C6 ---------------------------------------------------------------
\* C6 as stated: for every title_id, one that names no stored title included,
\* get_mean_score returns 0, propagates no exception and changes no row.
C6_AlwaysReturnsZero ==
    [][\A self \in ReviewIds \cup {Null}, t \in AnyTitle :
          get_mean_score(self, t)
          => result' = Returned(0) /\ UNCHANGED tables]_vars

\* C6, amended: for every title_id that names a stored title, one with no
\* reviews included, get_mean_score returns 0 and propagates no exception; for
\* a title_id that names no stored title the Http404 of get_object_or_404
\* reaches the caller; in both cases no stored row changes.
C6_ReturnsZeroForStoredTitle ==
    [][\A self \in ReviewIds \cup {Null}, t \in AnyTitle :
          get_mean_score(self, t)
          => /\ UNCHANGED tables
             /\ t \in DOMAIN titles => result' = Returned(0)
             /\ t \notin DOMAIN titles => result'.status = "Http404"]_vars

\* get_mean_score has returned while every stored title has a review.
C6_Witness ==
    /\ result.status = "returned"
    /\ DOMAIN titles # {}
    /\ \A t \in DOMAIN titles : FilterByTitle(t) # {}

\* ---- C7 ---------------------------------------------------------------
\* C7: deleting a category sets category to null on every title that
\* referenced it, deletes no title, and leaves unchanged the name, year,
\* description and genres of those titles, the category of every other
\* title, and all reviews and comments.
C7_CategoryNulledOnDelete ==
    [][\A c \in DOMAIN categories \ DOMAIN categories' :
          /\ DOMAIN titles' = DOMAIN titles
          /\ \A t \in DOMAIN titles :
                /\ titles'[t].category =
                      IF titles[t].category = c THEN Null ELSE titles[t].category
                /\ titles'[t].name = titles[t].name
                /\ titles'[t].year = titles[t].year
                /\ titles'[t].description = titles[t].description
                /\ titles'[t].genre = titles[t].genre
          /\ reviews' = reviews
          /\ comments' = comments]_vars

\* A category has just been deleted; one title has no category, another has
\* one, and reviews and comments are stored.
C7_Witness ==
    /\ result = Deleted("Category")
    /\ \E t \in DOMAIN titles : titles[t].category = Null /\ titles[t].genre # {}
    /\ \E t \in DOMAIN titles : titles[t].category # Null
    /\ reviews # Empty
    /\ comments # Empty

\* ---- C8 ---------------------------------------------------------------
\* C8: referential integrity.  In every reachable state every review
\* references a stored title and a stored user, every comment references a
\* stored review and a stored user, and every title's category is null or a
\* stored category.
C8_ReferentialIntegrity ==
    /\ \A r \in DOMAIN reviews :
          reviews[r].title \in DOMAIN titles /\ reviews[r].author \in users
    /\ \A c \in DOMAIN comments :
          comments[c].review \in DOMAIN reviews /\ comments[c].author \in users
    /\ \A t \in DOMAIN titles :
          titles[t].category = Null \/ titles[t].category \in DOMAIN categories

\* A title has just been deleted; a review with a comment and a title with a
\* category are still stored.
C8_Witness ==
    /\ result = Deleted("Title")
    /\ reviews # Empty
    /\ comments # Empty
    /\ \E t \in DOMAIN titles : titles[t].category # Null

\* ---- C9 ---------------------------------------------------------------
SlugsUnique(table) ==
    \A k1, k2 \in DOMAIN table : k1 # k2 => table[k1].slug # table[k2].slug

DuplicateSlugRejected ==
    \A n \in Names, s \in Slugs :
        /\ \A id \in CategoryIds :
              (/\ \E k \in DOMAIN categories \ {id} : categories[k].slug = s
               /\ CategoryCreate(id, n, s) \/ CategoryUpdate(id, n, s))
              => /\ result'.status \in {"IntegrityError", "ValidationError"}
                 /\ categories' = categories
        /\ \A id \in GenreIds :
              (/\ \E k \in DOMAIN genres \ {id} : genres[k].slug = s
               /\ GenreCreate(id, n, s) \/ GenreUpdate(id, n, s))
              => /\ result'.status \in {"IntegrityError", "ValidationError"}
                 /\ genres' = genres

\* C9: slugs are unique within Category and within Genre.  No two stored
\* categories share a slug and no two stored genres share a slug; a create or
\* update that would repeat a slug inside one table is rejected and leaves
\* the stored rows as they were.  (A category and a genre may hold the same
\* slug: C9_Witness is such a state.)
C9_SlugsUnique ==
    /\ [](SlugsUnique(categories) /\ SlugsUnique(genres))
    /\ [][DuplicateSlugRejected]_vars

\* Both tables are full, a category and a genre hold the same slug, and the
\* last operation was a genre rejected for its slug.
C9_Witness ==
    /\ result = Raised("IntegrityError", "genre.slug")
    /\ Cardinality(DOMAIN categories) = 2
    /\ Cardinality(DOMAIN genres) = 2
    /\ \E c \in DOMAIN categories, g \in DOMAIN genres :
          categories[c].slug = genres[g].slug

\* ---- C10 --------------------------------------------------------------
\* Table f is table g restricted to the keys in K.
IsRestriction(f, g, K) ==
    /\ DOMAIN f = K
    /\ \A k \in K : f[k] = g[k]

TitleDeleteExact(t) ==
    /\ IsRestriction(titles', titles, DOMAIN titles \ {t})
    /\ IsRestriction(reviews', reviews,
                     {r \in DOMAIN reviews : reviews[r].title # t})
    /\ IsRestriction(comments', comments,
                     {c \in DOMAIN comments :
                        reviews[comments[c].review].title # t})
    /\ UNCHANGED <<users, categories, genres>>

UserDeleteExact(u) ==
    /\ users' = users \ {u}
    /\ IsRestriction(reviews', reviews,
                     {r \in DOMAIN reviews : reviews[r].author # u})
    /\ IsRestriction(comments', comments,
                     {c \in DOMAIN comments :
                        /\ comments[c].author # u
                        /\ reviews[comments[c].review].author # u})
    /\ UNCHANGED <<titles, categories, genres>>

\* C10: cascade deletion removes exactly the dependents.  Deleting a title
\* removes the title, its reviews and the comments on them; deleting a user
\* removes the user's reviews, the comments on them (whoever wrote them) and
\* the comments the user wrote; every other title, review, comment, category
\* and genre row is left unchanged.
C10_CascadeExact ==
    [][/\ \A t \in DOMAIN titles \ DOMAIN titles' : TitleDeleteExact(t)
       /\ \A u \in users \ users' : UserDeleteExact(u)]_vars

\* A user has just been deleted; a review of the remaining user, both titles
\* and rows of the two lookup tables are still stored.
C10_Witness ==
    /\ result = Deleted("User")
    /\ Cardinality(users) = 1
    /\ Cardinality(DOMAIN reviews) = 1
    /\ Cardinality(DOMAIN titles) = 2
    /\ categories # Empty
    /\ genres # Empty

====
